---- MODULE Spec2Model ----
(***************************************************************************)
(* A model of article_exporter.py (class ArticleExporter): the content     *)
(* locator, the sanitizer, the Markdown renderer, the image materializer   *)
(* and the folder assembler.  Text is modelled character by character: a   *)
(* string is a sequence of one-character strings.                          *)
(***************************************************************************)
EXTENDS Integers, Sequences, FiniteSets, TLC

VARIABLES
    code_text,      \* _fence_code_block / _inline_code_span: the text argument
    language,       \* _fence_code_block: the language argument (<<>> is None)
    code_out,       \* the value returned by the function that ran
    code_pc,        \* "input" | "fenced" | "span" | "off"
    fs,             \* the files under output_root: path -> what was written there
    no_images,      \* ArticleExporter.no_images
    exp_pc,         \* export_article: "idle" | "render" | "aborted" | "off"
    exp_no,         \* the number of export_article calls started so far
    base,           \* _create_unique_article_folder: the name <date>-<id>-<title>
    folder_path,    \* export_article: the folder of the running export
    img_idx,        \* the number of img elements the render walk has handled
    last_img,       \* the last _handle_image call: its outcome, local_name, result
    md_refs,        \* the local names of the image references rendered so far
    returned,       \* the folder paths export_article has returned, in order
    img_tag,        \* _handle_image called on its own: the img element
    img_out,        \* ... and what the call did (None before it)
    soup,           \* export_article: the parsed document
    content_root,   \* export_article: where content_root is in soup (a path)
    loc_pc,         \* "parsed" | "located" | "rooted" | "off"
    san_input,      \* _remove_unwanted_elements: the subtree root as first given
    san_root,       \* ... and the same subtree now
    san_pc,         \* "input" | "once" | "twice" | "off"
    rnd_doc,        \* export_article: the parsed page that is rendered
    rnd_root,       \* ... its content root, sanitized
    rnd_out,        \* ... and the Markdown of _element_to_markdown
    rnd_md,         \* ... and the content written to article.md
    rnd_pc,         \* "parsed" | "rendered" | "composed" | "off"
    con_fs,         \* concurrent export_article calls: the files under output_root
    con_pc,         \* ... where each call is: "start" | "check" | "try" | "mkdir" |
                    \* "walk" | "name" | "download" | "done" | "off"
    con_base,       \* ... its name <date>-<id>-<title>
    con_folder,     \* ... folder of _create_unique_article_folder, then folder_path
    con_suffix,     \* ... suffix of _create_unique_article_folder
    con_idx,        \* ... idx of _unique_image_filename
    con_imgs        \* ... the number of img elements its walk has handled

code_vars == <<code_text, language, code_out, code_pc>>
exp_vars == <<fs, no_images, exp_pc, exp_no, base, folder_path, img_idx, last_img,
              md_refs, returned>>

img_vars == <<img_tag, img_out>>

loc_vars == <<soup, content_root, loc_pc>>

san_vars == <<san_input, san_root, san_pc>>

rnd_vars == <<rnd_doc, rnd_root, rnd_out, rnd_md, rnd_pc>>

con_vars == <<con_fs, con_pc, con_base, con_folder, con_suffix, con_idx, con_imgs>>

vars == <<code_vars, exp_vars, img_vars, loc_vars, san_vars, rnd_vars, con_vars>>

(***************************************************************************)
(* Bounds of the model.                                                    *)
(***************************************************************************)
MaxCodeLen == 4
MaxExports == 3
MaxImages == 3
MaxDocNodes == 2
MaxSanNodes == 3
MaxBlocks == 2
MaxRaceImages == 1

(***************************************************************************)
(* Strings.                                                                *)
(***************************************************************************)
\* The backtick character (a TLA+ string literal cannot hold one).
Backtick == "BACKTICK"

Max(a, b) == IF a >= b THEN a ELSE b

\* c * n
Repeat(c, n) == [i \in 1..n |-> c]

\* All sequences over alphabet S of length at most n.
SeqsUpTo(S, n) ==
    UNION { [1..k -> S] : k \in 0..n }

\* str.rstrip('\n')
RECURSIVE RStripNewlines(_)
RStripNewlines(s) ==
    IF s # <<>> /\ s[Len(s)] = "\n"
    THEN RStripNewlines(SubSeq(s, 1, Len(s) - 1))
    ELSE s

\* The length of the match of the regex (backtick)+ that starts at the head of s.
RECURSIVE LeadingBackticks(_)
LeadingBackticks(s) ==
    IF s # <<>> /\ Head(s) = Backtick
    THEN 1 + LeadingBackticks(Tail(s))
    ELSE 0

\* The loop over re.finditer of (backtick)+ that keeps the longest match,
\* from the running maximum acc over the rest s of the text.
RECURSIVE LongestBackticksFrom(_, _)
LongestBackticksFrom(acc, s) ==
    IF s = <<>> THEN acc
    ELSE IF Head(s) # Backtick THEN LongestBackticksFrom(acc, Tail(s))
    ELSE LET n == LeadingBackticks(s)
         IN  LongestBackticksFrom(Max(acc, n), SubSeq(s, n + 1, Len(s)))

LongestBackticks(text) == LongestBackticksFrom(0, text)

\* The value None of the program.
None == <<"None">>

\* substring in text
Contains(text, sub) ==
    \E i \in 1..(Len(text) - Len(sub) + 1) : SubSeq(text, i, i + Len(sub) - 1) = sub

\* text.endswith(suffix)
EndsWith(text, suffix) ==
    /\ Len(text) >= Len(suffix)
    /\ SubSeq(text, Len(text) - Len(suffix) + 1, Len(text)) = suffix

\* str.lower(), on the upper-case letters the model's inputs use.
LowerChar(c) ==
    CASE c = "A" -> "a" [] c = "D" -> "d" [] c = "G" -> "g" [] c = "J" -> "j"
      [] c = "N" -> "n" [] c = "P" -> "p" [] OTHER -> c

Lower(text) == [i \in 1..Len(text) |-> LowerChar(text[i])]

IsSpace(c) == c \in {" ", "\n", "\t"}

\* F(v) as the source computes a call: the argument first, then the body of F
\* on its value.
Call(F(_), v) == CHOOSE r \in { F(x) : x \in {v} } : TRUE

\* The indices of s, in order.
Indices(s) == [i \in 1..Len(s) |-> i]

\* The elements of s at the indices idx.
Pick(s, idx) == [j \in 1..Len(idx) |-> s[idx[j]]]

\* The sequences seqs one after the other.
RECURSIVE ConcatAll(_)
ConcatAll(seqs) ==
    IF Len(seqs) = 0 THEN <<>>
    ELSE IF Len(seqs) = 1 THEN seqs[1]
    ELSE LET half == Len(seqs) \div 2
         IN  ConcatAll(SubSeq(seqs, 1, half)) \o ConcatAll(SubSeq(seqs, half + 1, Len(seqs)))

\* str.lstrip(), str.rstrip(), str.strip()
LStrip(s) ==
    IF \A i \in 1..Len(s) : IsSpace(s[i]) THEN <<>>
    ELSE SubSeq(s, CHOOSE i \in 1..Len(s) :
                       ~IsSpace(s[i]) /\ \A j \in 1..(i - 1) : IsSpace(s[j]),
                Len(s))

RStrip(s) ==
    IF \A i \in 1..Len(s) : IsSpace(s[i]) THEN <<>>
    ELSE SubSeq(s, 1, CHOOSE i \in 1..Len(s) :
                          ~IsSpace(s[i]) /\ \A j \in (i + 1)..Len(s) : IsSpace(s[j]))

Strip(s) == Call(RStrip, LStrip(s))

DigitChars == <<"0", "1", "2", "3", "4", "5", "6", "7", "8", "9">>

IsDigit(c) == \E d \in 1..10 : DigitChars[d] = c

DigitValue(c) == (CHOOSE d \in 1..10 : DigitChars[d] = c) - 1

\* str(n) for n >= 0
RECURSIVE Digits(_)
Digits(n) ==
    IF n < 10 THEN <<DigitChars[n + 1]>>
    ELSE Digits(n \div 10) \o <<DigitChars[(n % 10) + 1]>>

\* f"{n:03d}"
Pad3(n) ==
    LET d == Digits(n) IN Repeat("0", 3 - Len(d)) \o d

\* The value of a string of decimal digits.
RECURSIVE DigitsValue(_)
DigitsValue(s) ==
    IF s = <<>> THEN 0
    ELSE 10 * DigitsValue(SubSeq(s, 1, Len(s) - 1)) + DigitValue(s[Len(s)])

\* int(text): [ok |-> FALSE] is the ValueError.  Surrounding whitespace is
\* stripped, one sign is accepted, the rest must be decimal digits.
IntParse(text) ==
    LET t      == Strip(text)
        signed == t # <<>> /\ Head(t) \in {"+", "-"}
        body   == IF signed THEN Tail(t) ELSE t
    IN  IF body # <<>> /\ \A i \in 1..Len(body) : IsDigit(body[i])
        THEN [ok |-> TRUE,
              val |-> IF signed /\ Head(t) = "-" THEN 0 - DigitsValue(body)
                      ELSE DigitsValue(body)]
        ELSE [ok |-> FALSE, val |-> 0]

\* The index of the last occurrence of c in s, 0 when there is none (str.rfind + 1).
LastIndexOf(s, c) ==
    IF \E i \in 1..Len(s) : s[i] = c
    THEN CHOOSE i \in 1..Len(s) : s[i] = c /\ \A j \in (i + 1)..Len(s) : s[j] # c
    ELSE 0

\* os.path.basename(path)
Basename(path) == SubSeq(path, LastIndexOf(path, "/") + 1, Len(path))

\* os.path.splitext(name)[1]: from the last dot, unless only dots precede it.
SplitExt(name) ==
    LET dot == LastIndexOf(name, ".")
    IN  IF dot > 0 /\ \E i \in 1..(dot - 1) : name[i] # "."
        THEN SubSeq(name, dot, Len(name))
        ELSE <<>>

\* str.split(): the whitespace-separated tokens of s.
SplitWs(s) ==
    LET starts == SelectSeq(Indices(s), LAMBDA i :
                      ~IsSpace(s[i]) /\ (i = 1 \/ IsSpace(s[i - 1])))
        ends   == SelectSeq(Indices(s), LAMBDA i :
                      ~IsSpace(s[i]) /\ (i = Len(s) \/ IsSpace(s[i + 1])))
    IN  [k \in 1..Len(starts) |-> SubSeq(s, starts[k], ends[k])]

\* ' '.join(tokens)
JoinSp(tokens) ==
    ConcatAll([i \in 1..Len(tokens) |->
        IF i = 1 THEN tokens[i] ELSE <<" ">> \o tokens[i]])

\* text.replace(c, r) for a one-character c
Replace(text, c, r) ==
    ConcatAll([i \in 1..Len(text) |-> IF text[i] = c THEN r ELSE <<text[i]>>])

\* os.path.join(folder, name)
PathJoin(folder, name) == folder \o <<"/">> \o name

(***************************************************************************)
(* _fence_code_block and _inline_code_span.                                *)
(***************************************************************************)
MinFence == 3
MinSpan == 1

\* A fence no longer than the longest run (the "+ 1" forgotten).
FenceCodeBlockShort(text, lang) ==
    LET stripped == RStripNewlines(text)
        fence    == Repeat(Backtick, Max(MinFence, LongestBackticks(stripped)))
    IN  << IF lang = <<>> THEN fence ELSE fence \o lang, stripped, fence, <<>> >>

\* _fence_code_block(code_text, language) -> [opening, code_text, fence, ""]
FenceCodeBlock(text, lang) ==
    LET stripped == RStripNewlines(text)
        fence    == Repeat(Backtick, Max(MinFence, LongestBackticks(stripped) + 1))
    IN  << IF lang = <<>> THEN fence ELSE fence \o lang, stripped, fence, <<>> >>

\* _inline_code_span(text) -> fence + text + fence
InlineCodeSpan(text) ==
    LET fence == Repeat(Backtick, Max(MinSpan, LongestBackticks(text) + 1))
    IN  fence \o text \o fence

CodeChars == {Backtick, "a", "\n"}
Languages == { <<>>, <<"p", "y">> }

FenceCode ==
    /\ code_pc = "input"
    /\ code_out' = FenceCodeBlock(code_text, language)
    /\ code_pc' = "fenced"
    /\ UNCHANGED <<code_text, language>>

InlineCode ==
    /\ code_pc = "input"
    /\ code_out' = InlineCodeSpan(code_text)
    /\ code_pc' = "span"
    /\ UNCHANGED <<code_text, language>>

(***************************************************************************)
(* Elements.  A Tag is a record [name, attrs, text, kids]: attrs maps the   *)
(* names of the attributes present to their values, kids is the sequence   *)
(* of children; a NavigableString has name "#text" and its characters in   *)
(* text.                                                                   *)
(***************************************************************************)
NoAttrs == [a \in {} |-> <<>>]

\* tag.get(name, default)
Attr(tag, name, default) ==
    IF name \in DOMAIN tag.attrs THEN tag.attrs[name] ELSE default

\* tag.get('class', []): the class attribute is multi-valued, a list of tokens
ClassList(tag) == SplitWs(Attr(tag, "class", <<>>))

(***************************************************************************)
(* _escape_md                                                              *)
(***************************************************************************)
EscapeMd(text) ==
    Call(LAMBDA t2 : Replace(t2, "#", <<"\\", "#">>),
         Call(LAMBDA t1 : Replace(t1, "_", <<"\\", "_">>),
              Replace(text, "*", <<"\\", "*">>)))

(***************************************************************************)
(* The image materializer: _unique_image_filename, _download_binary,       *)
(* _handle_image.  files is the filesystem, a function from the paths that *)
(* exist to what was written there.                                        *)
(***************************************************************************)
MinImageSize == 32

AllowedExt ==
    { <<".", "w", "e", "b", "p">>, <<".", "j", "p", "g">>, <<".", "j", "p", "e", "g">>,
      <<".", "p", "n", "g">>, <<".", "g", "i", "f">>, <<".", "s", "v", "g">> }

\* os.path.exists(path)
Exists(files, path) == path \in DOMAIN files

\* open(path, 'w').write(content): the file is created or replaced
WriteFile(files, path, content) ==
    [q \in DOMAIN files \cup {path} |-> IF q = path THEN content ELSE files[q]]

\* re.sub(r'[^a-zA-Z0-9\._\-]', '_', base), on the characters the inputs use
SafeNameChar(c) ==
    IF c \in {" ", "/", "*", "#", "\\", "(", ")", "%"} THEN "_" ELSE c

ImageCandidate(idx, ext) == <<"i", "m", "g", "_">> \o Pad3(idx) \o ext

\* The loop "while os.path.exists(join(folder, candidate)): idx += 1", from idx.
RECURSIVE FirstFreeImage(_, _, _, _)
FirstFreeImage(files, folder, ext, idx) ==
    IF Exists(files, PathJoin(folder, ImageCandidate(idx, ext)))
    THEN FirstFreeImage(files, folder, ext, idx + 1)
    ELSE ImageCandidate(idx, ext)

\* A counter that never looks at the folder: every image is img_001.
UniqueImageFilenameNoLoop(files, folder, remote_path) ==
    LET b0   == Basename(remote_path)
        b1   == IF b0 = <<>> THEN <<"i", "m", "a", "g", "e">> ELSE b0
        b    == [i \in 1..Len(b1) |-> SafeNameChar(b1[i])]
        ext  == IF SplitExt(b) = <<>> THEN <<".", "p", "n", "g">> ELSE SplitExt(b)
    IN  ImageCandidate(1, ext)

\* _unique_image_filename(folder, remote_path)
UniqueImageFilename(files, folder, remote_path) ==
    LET b0   == Basename(remote_path)
        b1   == IF b0 = <<>> THEN <<"i", "m", "a", "g", "e">> ELSE b0
        b    == [i \in 1..Len(b1) |-> SafeNameChar(b1[i])]
        ext  == IF SplitExt(b) = <<>> THEN <<".", "p", "n", "g">> ELSE SplitExt(b)
    IN  FirstFreeImage(files, folder, ext, 1)

\* What a download can do: succeed ("ok"); fail before the file exists, the
\* request, raise_for_status or open raising ("http_error"); fail once the file
\* is open, iter_content or f.write raising, which leaves the file created with
\* part of its content ("write_error").
Outcomes == {"ok", "http_error", "write_error"}

\* _download_binary(url, dest): [files, raised]; who names the image downloaded
DownloadBinary(files, dest, outcome, who) ==
    CASE outcome = "ok" ->
           [files |-> WriteFile(files, dest, <<"image", who>>), raised |-> FALSE]
      [] outcome = "write_error" ->
           [files |-> WriteFile(files, dest, <<"partial", who>>), raised |-> TRUE]
      [] OTHER ->
           [files |-> files, raised |-> TRUE]

\* The result of a _handle_image that returns None before any download.
Skipped(files) ==
    [md |-> None, local_name |-> None, files |-> files, raised |-> FALSE,
     requested |-> FALSE]

\* The try block of the minimum-size heuristic: TRUE when it returns None.  A
\* ValueError of either int() leaves the block, so nothing after it is tested.
TooSmall(img) ==
    LET width  == IntParse(Attr(img, "width", <<"0">>))
        height == IntParse(Attr(img, "height", <<"0">>))
    IN  IF ~width.ok \/ ~height.ok THEN FALSE
        ELSE \/ (width.val # 0 /\ width.val < MinImageSize)
             \/ (height.val # 0 /\ height.val < MinImageSize)

\* img.get('src') or img.get('data-src') or ''
ImageSrc(img) ==
    IF Attr(img, "src", <<>>) # <<>> THEN Attr(img, "src", <<>>)
    ELSE Attr(img, "data-src", <<>>)

\* The filters of _handle_image before the minimum-size heuristic: TRUE when one
\* of them returns None.  The path of the resolved URL is the src itself.
FilteredEarly(img, noimg) ==
    LET src     == ImageSrc(img)
        classes == Lower(JoinSp(ClassList(img)))
    IN  \/ noimg
        \/ src = <<>>
        \/ ~\E ext \in AllowedExt : EndsWith(Lower(src), ext)
        \/ Contains(classes, <<"a", "d">>)
        \/ Contains(classes, <<"a", "d", "v", "e", "r", "t">>)

\* _handle_image without its try/except around the download: the exception of
\* _download_binary leaves the function.
HandleImageNoCatch(img, folder, files, outcome, who, noimg) ==
    IF FilteredEarly(img, noimg) \/ TooSmall(img) THEN Skipped(files)
    ELSE LET a0         == Strip(Attr(img, "alt", <<>>))
             alt        == IF a0 = <<>> THEN <<"i", "m", "a", "g", "e">> ELSE a0
             local_name == UniqueImageFilename(files, folder, ImageSrc(img))
             got        == DownloadBinary(files, PathJoin(folder, local_name), outcome, who)
         IN  IF got.raised
             THEN [md |-> None, local_name |-> local_name, files |-> got.files,
                   raised |-> TRUE, requested |-> TRUE]
             ELSE [md |-> <<"!", "[">> \o EscapeMd(alt) \o <<"]", "(">> \o local_name
                          \o <<")", "\n">>,
                   local_name |-> local_name, files |-> got.files, raised |-> FALSE,
                   requested |-> TRUE]

\* _handle_image(img, base_url, article_folder): md is the Markdown returned (or
\* None), files the filesystem it leaves, raised whether an exception left it,
\* requested whether _download_binary was called.
HandleImage(img, folder, files, outcome, who, noimg) ==
    IF FilteredEarly(img, noimg) \/ TooSmall(img) THEN Skipped(files)
    ELSE LET a0         == Strip(Attr(img, "alt", <<>>))
             alt        == IF a0 = <<>> THEN <<"i", "m", "a", "g", "e">> ELSE a0
             local_name == UniqueImageFilename(files, folder, ImageSrc(img))
             got        == DownloadBinary(files, PathJoin(folder, local_name), outcome, who)
         IN  IF got.raised
             THEN [md |-> None, local_name |-> local_name, files |-> got.files,
                   raised |-> FALSE, requested |-> TRUE]
             ELSE [md |-> <<"!", "[">> \o EscapeMd(alt) \o <<"]", "(">> \o local_name
                          \o <<")", "\n">>,
                   local_name |-> local_name, files |-> got.files, raised |-> FALSE,
                   requested |-> TRUE]

(***************************************************************************)
(* _create_unique_article_folder.  Paths are relative to output_root.      *)
(***************************************************************************)
\* The loop "while os.path.exists(folder): ...", from suffix.
RECURSIVE FirstFreeFolder(_, _, _)
FirstFreeFolder(files, folder, suffix) ==
    LET folder_try == folder \o <<"-">> \o Digits(suffix)
    IN  IF ~Exists(files, folder) THEN folder
        ELSE IF ~Exists(files, folder_try) THEN folder_try
        ELSE FirstFreeFolder(files, folder, suffix + 1)

\* A loop that tries the suffix 1 and takes it unchecked.
UniqueArticleFolderUnchecked(files, b) ==
    IF ~Exists(files, b) THEN b ELSE b \o <<"-">> \o Digits(1)

\* The folder _create_unique_article_folder returns for the name b.
UniqueArticleFolder(files, b) == FirstFreeFolder(files, b, 1)

\* os.makedirs(folder, exist_ok=True)
MakeDirs(files, folder, who) ==
    IF Exists(files, folder) THEN files ELSE WriteFile(files, folder, <<"dir", who>>)

ArticleMd == <<"a", "r", "t", "i", "c", "l", "e", ".", "m", "d">>

(***************************************************************************)
(* export_article, step by step: the folder is created, the render walk    *)
(* hands each img it meets to _handle_image, article.md is written and the *)
(* folder path returned.                                                   *)
(***************************************************************************)
NoImage == [outcome |-> "none", local_name |-> None, md |-> None, requested |-> FALSE]

Img(src) == [name |-> "img", attrs |-> ("src" :> src), text |-> <<>>, kids |-> <<>>]

ImgWith(src, attrs) ==
    [name |-> "img", attrs |-> ("src" :> src) @@ attrs, text |-> <<>>, kids |-> <<>>]

\* The img elements of the articles exported.
ExportImages ==
    { Img(<<"/", "a", "/", "p", "h", "o", "t", "o", ".", "j", "p", "g">>),
      Img(<<"/", "b", "/", "p", "h", "o", "t", "o", ".", "j", "p", "g">>),
      Img(<<"/", "a", ".", "p", "n", "g">>),
      ImgWith(<<"/", "i", ".", "p", "n", "g">>, "width" :> <<"1", "0">>) }

\* The names <date>-<id>-<title> of the articles exported: the second is the
\* first with a title that ends in "-1".
Bases == { <<"X">>, <<"X", "-", "1">> }

\* A folder an earlier run left: its article.md and one image.
OldFolder(folder) ==
    (folder :> <<"dir", 0>>)
    @@ (PathJoin(folder, ArticleMd) :> <<"article", 0>>)
    @@ (PathJoin(folder, ImageCandidate(1, <<".", "j", "p", "g">>)) :> <<"image", 0>>)

OldFolders == { <<"X">>, <<"X", "-", "1">>, <<"X", "-", "2">> }

NoResult == [outcome |-> "none", no_images |-> FALSE, md |-> None,
             requested |-> FALSE, raised |-> FALSE]

RECURSIVE MergeAll(_)
MergeAll(S) ==
    IF S = {} THEN NoAttrs
    ELSE LET f == CHOOSE x \in S : TRUE IN OldFolder(f) @@ MergeAll(S \ {f})

ExportInit ==
    /\ fs \in { MergeAll(S) : S \in SUBSET OldFolders }
    /\ exp_pc = "idle"
    /\ exp_no = 0
    /\ base = <<>>
    /\ folder_path = <<>>
    /\ img_idx = 0
    /\ last_img = NoImage
    /\ md_refs = <<>>
    /\ returned = <<>>

ExportOff ==
    /\ fs = NoAttrs
    /\ no_images = FALSE
    /\ exp_pc = "off"
    /\ exp_no = 0
    /\ base = <<>>
    /\ folder_path = <<>>
    /\ img_idx = 0
    /\ last_img = NoImage
    /\ md_refs = <<>>
    /\ returned = <<>>

\* export_article up to "folder_path = self._create_unique_article_folder(article)",
\* in a run of at most calls calls
CreateFolder(calls) ==
    /\ exp_pc = "idle"
    /\ exp_no < calls
    /\ \E b \in Bases :
         /\ base' = b
         /\ folder_path' = UniqueArticleFolder(fs, b)
         /\ fs' = MakeDirs(fs, UniqueArticleFolder(fs, b), exp_no + 1)
    /\ exp_no' = exp_no + 1
    /\ exp_pc' = "render"
    /\ img_idx' = 0
    /\ last_img' = NoImage
    /\ md_refs' = <<>>
    /\ UNCHANGED <<no_images, returned>>

\* The render walk meets its next img: _collect_children / _collect_inline call
\* _handle_image and splice its result in, if any.
RenderImage ==
    /\ exp_pc = "render"
    /\ img_idx < MaxImages
    /\ \E i \in ExportImages, outcome \in Outcomes :
         LET r == HandleImage(i, folder_path, fs, outcome, <<exp_no, img_idx + 1>>,
                              no_images)
         IN  /\ fs' = r.files
             /\ last_img' = [outcome |-> IF r.requested THEN outcome ELSE "filtered",
                             local_name |-> r.local_name, md |-> r.md,
                             requested |-> r.requested]
             /\ md_refs' = IF r.md # None /\ ~r.raised
                           THEN Append(md_refs, r.local_name) ELSE md_refs
             /\ exp_pc' = IF r.raised THEN "aborted" ELSE "render"
    /\ img_idx' = img_idx + 1
    /\ UNCHANGED <<no_images, exp_no, base, folder_path, returned>>

\* export_article from the end of the walk: article.md is written, the folder
\* path returned.
WriteArticle ==
    /\ exp_pc = "render"
    /\ fs' = WriteFile(fs, PathJoin(folder_path, ArticleMd), <<"article", exp_no>>)
    /\ returned' = Append(returned, folder_path)
    /\ exp_pc' = "idle"
    /\ UNCHANGED <<no_images, exp_no, base, folder_path, img_idx, last_img, md_refs>>

(***************************************************************************)
(* _handle_image on its own, on one img element and an empty folder.       *)
(***************************************************************************)
\* The values of a width or height attribute: absent is no attribute at all.
SizeValues ==
    { <<"0">>, <<"1">>, <<"1", "0">>, <<"3", "1">>, <<"3", "2">>, <<"1", "0", "0">>,
      <<" ", "1", "0">>, <<"-", "5">>, <<>>, <<"a", "u", "t", "o">>,
      <<"1", "0", "p", "x">>, <<"5", "0", "%">>, <<"1", "0", ".", "5">> }

SizeAttrs(name) == {NoAttrs} \cup { name :> v : v \in SizeValues }

ImageInputs ==
    { ImgWith(src, w @@ h) :
        src \in { <<"/", "a", ".", "p", "n", "g">>, <<"/", "b", ".", "j", "p", "g">> },
        w \in SizeAttrs("width"), h \in SizeAttrs("height") }
    \cup
    { ImgWith(<<"/", "c", ".", "P", "N", "G">>, "class" :> c) :
        c \in { <<"h", "e", "r", "o">>, <<"A", "d">>, <<"s", "h", "a", "d", "o", "w">>,
                <<"x", " ", "a", "d", "v", "e", "r", "t">> } }
    \cup
    { ImgWith(<<>>, "data-src" :> <<"/", "d", ".", "g", "i", "f">>),
      ImgWith(<<>>, NoAttrs),
      Img(<<"/", "e", ".", "b", "m", "p">>),
      Img(<<"/", "p", "i", "c">>) }

ImageFolder == <<"X">>

ImageInit ==
    /\ img_tag \in ImageInputs
    /\ img_out = NoResult

ImageOff ==
    /\ img_tag = Img(<<>>)
    /\ img_out = NoResult

\* One call _handle_image(img, base_url, article_folder), the folder empty.
HandleOneImage ==
    /\ img_out.outcome = "none"
    /\ \E outcome \in Outcomes, noimg \in BOOLEAN :
         LET r == HandleImage(img_tag, ImageFolder, (ImageFolder :> <<"dir", 1>>), outcome,
                              <<1, 1>>, noimg)
         IN  img_out' = [outcome |-> outcome, no_images |-> noimg, md |-> r.md,
                         requested |-> r.requested, raised |-> r.raised]
    /\ UNCHANGED img_tag

CodeInit ==
    /\ code_text \in SeqsUpTo(CodeChars, MaxCodeLen)
    /\ language \in Languages
    /\ code_out = <<>>
    /\ code_pc = "input"

CodeOff ==
    /\ code_text = <<>>
    /\ language = <<>>
    /\ code_out = <<>>
    /\ code_pc = "off"

(***************************************************************************)
(* Trees.  A node is found in its tree by its path, the sequence of child  *)
(* positions that leads to it from the root (<<>> is the root); document   *)
(* order is the preorder of the paths.                                     *)
(***************************************************************************)
TextNode(chars) == [name |-> "#text", attrs |-> NoAttrs, text |-> chars, kids |-> <<>>]

IsTag(node) == node.name # "#text"

\* An element of a given kind [name, attrs, text] over the child elements
\* forest: the element's own text, if any, is its first child.
Element(kind, forest) ==
    [name |-> kind.name, attrs |-> kind.attrs, text |-> <<>>,
     kids |-> (IF kind.text = <<>> THEN <<>> ELSE <<TextNode(kind.text)>>) \o forest]

\* The sequences of n elements in all, of the kinds given, nested in every way.
RECURSIVE ForestsOfSize(_, _)
ForestsOfSize(kinds, n) ==
    IF n = 0 THEN { <<>> }
    ELSE UNION { { <<Element(k, inner)>> \o rest :
                     k \in kinds,
                     inner \in ForestsOfSize(kinds, m - 1),
                     rest \in ForestsOfSize(kinds, n - m) } : m \in 1..n }

ForestsUpTo(kinds, n) == UNION { ForestsOfSize(kinds, m) : m \in 0..n }

\* The paths of the descendants of node, in document order.
RECURSIVE PathsBelow(_, _)
PathsBelow(node, here) ==
    IF node.kids = <<>> THEN <<>>
    ELSE ConcatAll([i \in 1..Len(node.kids) |->
             << here \o <<i>> >> \o PathsBelow(node.kids[i], here \o <<i>>)])

DescendantPaths(node) == PathsBelow(node, <<>>)

RECURSIVE NodeAt(_, _)
NodeAt(node, path) ==
    IF path = <<>> THEN node ELSE NodeAt(node.kids[Head(path)], Tail(path))

\* No element: the value None where an element is expected.
NoElement == <<0>>

\* len(re.sub(r'\s+', ' ', chars.strip())): every character that is not
\* whitespace, and one for each run of whitespace between two of them.
NormalizedLen(chars) ==
    LET t == Strip(chars)
    IN  Cardinality({ i \in 1..Len(t) : ~IsSpace(t[i]) \/ ~IsSpace(t[i - 1]) })

RECURSIVE SumSeq(_)
SumSeq(ns) == IF ns = <<>> THEN 0 ELSE Head(ns) + SumSeq(Tail(ns))

\* _text_length(el): get_text(strip=True) joins the stripped strings below el
\* with nothing between them; then runs of whitespace become one space.
RECURSIVE TextLength(_)
TextLength(node) ==
    IF ~IsTag(node) THEN NormalizedLen(node.text)
    ELSE SumSeq([i \in 1..Len(node.kids) |-> TextLength(node.kids[i])])

(***************************************************************************)
(* Selectors: [kind |-> "tag", name], [kind |-> "class", token] (.token),  *)
(* [kind |-> "attr", attr, value] ([attr="value"], #value for the id) and  *)
(* [kind |-> "attr_contains", attr, value] ([attr*="value"]).              *)
(***************************************************************************)
TagSel(n) == [kind |-> "tag", name |-> n]
ClassSel(c) == [kind |-> "class", token |-> c]
AttrSel(a, v) == [kind |-> "attr", attr |-> a, value |-> v]
AttrContainsSel(a, v) == [kind |-> "attr_contains", attr |-> a, value |-> v]

\* Whether the element node matches the selector sel.
Matches(node, sel) ==
    /\ IsTag(node)
    /\ CASE sel.kind = "tag" -> node.name = sel.name
         [] sel.kind = "class" ->
              \E i \in 1..Len(ClassList(node)) : ClassList(node)[i] = sel.token
         [] sel.kind = "attr" ->
              sel.attr \in DOMAIN node.attrs /\ node.attrs[sel.attr] = sel.value
         [] sel.kind = "attr_contains" ->
              /\ sel.attr \in DOMAIN node.attrs
              /\ Contains(IF sel.attr = "class" THEN JoinSp(ClassList(node))
                          ELSE node.attrs[sel.attr], sel.value)

\* root.select(sel): the paths of the descendants that match, in document order
Select(root, sel) ==
    SelectSeq(DescendantPaths(root), LAMBDA q : Matches(NodeAt(root, q), sel))

\* root.select_one(sel): the first of them, or None
SelectOne(root, sel) ==
    IF Select(root, sel) = <<>> THEN NoElement ELSE Head(Select(root, sel))

\* soup.find_all(names): the elements with one of the names, in document order
FindAll(root, names) ==
    SelectSeq(DescendantPaths(root), LAMBDA q : NodeAt(root, q).name \in names)

(***************************************************************************)
(* _extract_main_content and the fallback of export_article.               *)
(***************************************************************************)
MinContentLen == 200

ContentSelectors ==
    << TagSel("article"),
       ClassSel(<<"a","r","t","i","c","l","e","-","c","o","n","t","e","n","t">>),
       ClassSel(<<"p","o","s","t","-","c","o","n","t","e","n","t">>),
       ClassSel(<<"e","n","t","r","y","-","c","o","n","t","e","n","t">>),
       ClassSel(<<"c","o","n","t","e","n","t">>),
       ClassSel(<<"a","r","t","i","c","l","e","-","b","o","d","y">>),
       ClassSel(<<"p","o","s","t","-","b","o","d","y">>),
       ClassSel(<<"e","n","t","r","y","-","b","o","d","y">>),
       ClassSel(<<"a","r","t","i","c","l","e","-","t","e","x","t">>),
       ClassSel(<<"p","o","s","t","-","t","e","x","t">>),
       ClassSel(<<"e","n","t","r","y","-","t","e","x","t">>),
       TagSel("main"),
       AttrSel("role", <<"m","a","i","n">>),
       AttrSel("id", <<"m","a","i","n">>),
       AttrSel("id", <<"c","o","n","t","e","n","t">>),
       ClassSel(<<"m","a","i","n">>) >>

\* The same loop with "ln >= best_len": the last of the longest wins, and an
\* element without text can be returned.
RECURSIVE MostTextLast(_, _, _, _)
MostTextLast(root, divs, best, best_len) ==
    IF divs = <<>> THEN best
    ELSE LET ln == TextLength(NodeAt(root, Head(divs)))
         IN  IF ln >= best_len
             THEN MostTextLast(root, Tail(divs), Head(divs), ln)
             ELSE MostTextLast(root, Tail(divs), best, best_len)

\* The loop "for div in soup.find_all(['div', 'section'])": best after the
\* elements divs, from the best so far (its length best_len).
RECURSIVE MostText(_, _, _, _)
MostText(root, divs, best, best_len) ==
    IF divs = <<>> THEN best
    ELSE LET ln == TextLength(NodeAt(root, Head(divs)))
         IN  IF ln > best_len
             THEN MostText(root, Tail(divs), Head(divs), ln)
             ELSE MostText(root, Tail(divs), best, best_len)

\* The loop "for selector in selectors" over the selectors lo..hi, taken by
\* halves: the first element it returns, or None when it returns nothing.
RECURSIVE FirstQualifying(_, _, _)
FirstQualifying(root, lo, hi) ==
    IF lo = hi
    THEN LET el == SelectOne(root, ContentSelectors[lo])
         IN  IF el # NoElement /\ TextLength(NodeAt(root, el)) > MinContentLen
             THEN el
             ELSE NoElement
    ELSE LET mid == (lo + hi) \div 2
             el  == FirstQualifying(root, lo, mid)
         IN  IF el # NoElement THEN el ELSE FirstQualifying(root, mid + 1, hi)

\* The selector loop with the test "_text_length(el) >= 200".
RECURSIVE FirstAtThreshold(_, _, _)
FirstAtThreshold(root, lo, hi) ==
    IF lo = hi
    THEN LET el == SelectOne(root, ContentSelectors[lo])
         IN  IF el # NoElement /\ TextLength(NodeAt(root, el)) >= MinContentLen
             THEN el
             ELSE NoElement
    ELSE LET mid == (lo + hi) \div 2
             el  == FirstAtThreshold(root, lo, mid)
         IN  IF el # NoElement THEN el ELSE FirstAtThreshold(root, mid + 1, hi)

ExtractMainContentAtThreshold(root) ==
    LET el == FirstAtThreshold(root, 1, Len(ContentSelectors))
    IN  IF el # NoElement THEN el
        ELSE MostText(root, FindAll(root, {"div", "section"}), NoElement, 0)

\* _extract_main_content(soup): the path of the element returned, or None
ExtractMainContent(root) ==
    LET el == FirstQualifying(root, 1, Len(ContentSelectors))
    IN  IF el # NoElement THEN el
        ELSE MostText(root, FindAll(root, {"div", "section"}), NoElement, 0)

\* soup.find('body')
FindBody(root) ==
    IF FindAll(root, {"body"}) = <<>> THEN NoElement ELSE Head(FindAll(root, {"body"}))

\* Texts around the threshold: none; 201 characters; 202 characters that
\* normalize to 200, a run of three whitespace characters inside.
DocTexts ==
    { <<>>,
      Repeat("x", 201),
      Repeat("x", 100) \o <<" ", "\n", " ">> \o Repeat("x", 99) }

Kind(n, a, t) == [name |-> n, attrs |-> a, text |-> t]

\* The kinds of element of the documents located in.
DocKinds ==
    { Kind(n, NoAttrs, t) : n \in {"article", "div", "section"}, t \in DocTexts }
    \cup { Kind("div", "class" :> <<"c","o","n","t","e","n","t">>, t) : t \in DocTexts }
    \cup { Kind("p", NoAttrs, Repeat("x", 201)), Kind("body", NoAttrs, <<>>) }

Document(forest) == [name |-> "[document]", attrs |-> NoAttrs, text |-> <<>>, kids |-> forest]

LocateInit ==
    /\ soup \in { Document(f) : f \in ForestsUpTo(DocKinds, MaxDocNodes) }
    /\ content_root = NoElement
    /\ loc_pc = "parsed"

LocateOff ==
    /\ soup = Document(<<>>)
    /\ content_root = NoElement
    /\ loc_pc = "off"

\* export_article: "content_root = self._extract_main_content(soup)"
LocateContent ==
    /\ loc_pc = "parsed"
    /\ content_root' = ExtractMainContent(soup)
    /\ loc_pc' = "located"
    /\ UNCHANGED soup

\* export_article: "if content_root is None: content_root = soup.find('body') or
\* soup"; the path <<>> is soup itself
FallBackToBody ==
    /\ loc_pc = "located"
    /\ content_root' = IF content_root # NoElement THEN content_root
                       ELSE IF FindBody(soup) # NoElement THEN FindBody(soup)
                       ELSE <<>>
    /\ loc_pc' = "rooted"
    /\ UNCHANGED soup

(***************************************************************************)
(* _remove_unwanted_elements.                                              *)
(***************************************************************************)
UnwantedSelectors ==
    << TagSel("nav"),
       TagSel("header"),
       TagSel("footer"),
       TagSel("aside"),
       ClassSel(<<"n", "a", "v">>),
       ClassSel(<<"n", "a", "v", "i", "g", "a", "t", "i", "o", "n">>),
       ClassSel(<<"m", "e", "n", "u">>),
       ClassSel(<<"s", "i", "d", "e", "b", "a", "r">>),
       ClassSel(<<"a", "d">>),
       ClassSel(<<"a", "d", "v", "e", "r", "t", "i", "s", "e", "m", "e", "n", "t">>),
       ClassSel(<<"a", "d", "s">>),
       AttrContainsSel("class", <<"a", "d">>),
       ClassSel(<<"s", "o", "c", "i", "a", "l">>),
       ClassSel(<<"s", "h", "a", "r", "e">>),
       ClassSel(<<"c", "o", "m", "m", "e", "n", "t", "s">>),
       AttrContainsSel("class", <<"s", "o", "c", "i", "a", "l">>),
       AttrContainsSel("class", <<"s", "h", "a", "r", "e">>),
       AttrContainsSel("class", <<"c", "o", "m", "m", "e", "n", "t">>),
       ClassSel(<<"r", "e", "l", "a", "t", "e", "d">>),
       ClassSel(<<"r", "e", "c", "o", "m", "m", "e", "n", "d", "e", "d">>),
       TagSel("script"),
       TagSel("style"),
       TagSel("noscript"),
       TagSel("iframe"),
       TagSel("form") >>

\* The subtree node, which is at the path here, without the elements at the
\* paths in gone and all that is below them (decompose detaches, and destroys,
\* an element with its subtree; on an element already destroyed with its parent
\* it changes nothing in the tree).
RECURSIVE Without(_, _, _)
Without(node, here, gone) ==
    LET idx == SelectSeq([i \in 1..Len(node.kids) |-> i],
                         LAMBDA i : (here \o <<i>>) \notin gone)
    IN  [node EXCEPT !.kids =
            [j \in 1..Len(idx) |-> Without(node.kids[idx[j]], here \o <<idx[j]>>, gone)]]

\* "for n in root.select(sel): n.decompose()"
DecomposeAll(root, sel) ==
    LET found == Select(root, sel)
    IN  Without(root, <<>>, { found[i] : i \in 1..Len(found) })

\* The loop "for sel in unwanted_selectors" over the selectors lo..hi, taken
\* by halves.
RECURSIVE RemoveFrom(_, _, _)
RemoveFrom(root, lo, hi) ==
    IF lo = hi THEN DecomposeAll(root, UnwantedSelectors[lo])
    ELSE LET mid == (lo + hi) \div 2
         IN  Call(LAMBDA r : RemoveFrom(r, mid + 1, hi), RemoveFrom(root, lo, mid))

\* "n = root.select_one(sel)", and n.decompose() if there is one
DecomposeFirst(root, sel) ==
    LET found == Select(root, sel)
    IN  Without(root, <<>>, IF found = <<>> THEN {} ELSE {Head(found)})

\* The loop removing, for each selector, its first match only.
RECURSIVE RemoveFirstFrom(_, _, _)
RemoveFirstFrom(root, lo, hi) ==
    IF lo = hi THEN DecomposeFirst(root, UnwantedSelectors[lo])
    ELSE LET mid == (lo + hi) \div 2
         IN  Call(LAMBDA r : RemoveFirstFrom(r, mid + 1, hi), RemoveFirstFrom(root, lo, mid))

RemoveUnwantedElementsFirstOnly(root) == RemoveFirstFrom(root, 1, Len(UnwantedSelectors))

\* _remove_unwanted_elements(root): the subtree it leaves
RemoveUnwantedElements(root) == RemoveFrom(root, 1, Len(UnwantedSelectors))

\* The kinds of element of the subtrees sanitized: a div with text, a div of
\* class navbar, a nav with text, a div of class shadow, a div of classes share
\* and btn.
SanKinds ==
    { Kind("div", NoAttrs, <<"t">>),
      Kind("div", "class" :> <<"n", "a", "v", "b", "a", "r">>, <<>>),
      Kind("nav", NoAttrs, <<"s">>),
      Kind("div", "class" :> <<"s", "h", "a", "d", "o", "w">>, <<>>),
      Kind("div", "class" :> <<"s", "h", "a", "r", "e", " ", "b", "t", "n">>, <<>>) }

\* The subtrees sanitized: a document, or one element with what is below it.
SanInputs ==
    { Document(f) : f \in ForestsUpTo(SanKinds, MaxSanNodes) }
    \cup { f[1] : f \in { g \in ForestsUpTo(SanKinds, MaxSanNodes) : Len(g) = 1 } }

SanitizeInit ==
    /\ san_input \in SanInputs
    /\ san_root = san_input
    /\ san_pc = "input"

SanitizeOff ==
    /\ san_input = Document(<<>>)
    /\ san_root = Document(<<>>)
    /\ san_pc = "off"

\* export_article: "self._remove_unwanted_elements(content_root)"
Sanitize ==
    /\ san_pc = "input"
    /\ san_root' = RemoveUnwantedElements(san_root)
    /\ san_pc' = "once"
    /\ UNCHANGED san_input

\* _remove_unwanted_elements called again on the subtree it has sanitized
SanitizeAgain ==
    /\ san_pc = "once"
    /\ san_root' = RemoveUnwantedElements(san_root)
    /\ san_pc' = "twice"
    /\ UNCHANGED san_input

(***************************************************************************)
(* The Markdown renderer: _detect_code_language, _collect_inline_text,     *)
(* _collect_inline, _collect_children, _element_to_markdown.  A list of    *)
(* lines is a sequence of strings.  Tag names are lower-case as the parser *)
(* leaves them, so name.lower() is the name.                               *)
(***************************************************************************)
\* The strings below node, in document order.
RECURSIVE Strings(_)
Strings(node) ==
    IF ~IsTag(node) THEN <<node.text>>
    ELSE ConcatAll([i \in 1..Len(node.kids) |-> Strings(node.kids[i])])

\* node.get_text()
GetText(node) == Call(ConcatAll, Strings(node))

\* node.get_text(separator=' ', strip=True): the strings stripped, the empty
\* ones left out, a space between them
GetTextStripped(node) ==
    LET strs == Strings(node)
    IN  JoinSp(SelectSeq([i \in 1..Len(strs) |-> Strip(strs[i])],
                         LAMBDA t : t # <<>>))

\* re.sub(r'\s+', ' ', s)
CollapseWs(s) ==
    LET idx == SelectSeq(Indices(s), LAMBDA i :
                   ~(IsSpace(s[i]) /\ i > 1 /\ IsSpace(s[i - 1])))
    IN  [j \in 1..Len(idx) |-> IF IsSpace(s[idx[j]]) THEN " " ELSE s[idx[j]]]

\* re.sub(r"\n{3,}", "\n\n", s): of a run of newlines the first two stay
CollapseNewlines(s) ==
    Pick(s, SelectSeq(Indices(s), LAMBDA i :
                ~(s[i] = "\n" /\ i >= 3 /\ s[i - 1] = "\n" /\ s[i - 2] = "\n")))

\* "\n".join(lines)
JoinNl(lines) ==
    ConcatAll([i \in 1..Len(lines) |->
        IF i = 1 THEN lines[i] ELSE <<"\n">> \o lines[i]])

\* s.split('\n')
SplitNl(s) ==
    LET cuts == <<0>> \o SelectSeq(Indices(s), LAMBDA i : s[i] = "\n") \o <<Len(s) + 1>>
    IN  [k \in 1..(Len(cuts) - 1) |-> SubSeq(s, cuts[k] + 1, cuts[k + 1] - 1)]

StartsWith(text, prefix) ==
    Len(text) >= Len(prefix) /\ SubSeq(text, 1, Len(prefix)) = prefix

\* The characters of the class [a-z0-9+#]
LangChars ==
    { "a", "b", "c", "d", "e", "f", "g", "h", "i", "j", "k", "l", "m", "n", "o",
      "p", "q", "r", "s", "t", "u", "v", "w", "x", "y", "z", "+", "#" }
    \cup { DigitChars[d] : d \in 1..10 }

\* alias_map, its entries for python and javascript (the languages of the
\* pages rendered here)
AliasMap ==
    (<<"j", "s">> :> <<"j", "a", "v", "a", "s", "c", "r", "i", "p", "t">>)
    @@ (<<"j", "a", "v", "a", "s", "c", "r", "i", "p", "t">>
          :> <<"j", "a", "v", "a", "s", "c", "r", "i", "p", "t">>)
    @@ (<<"p", "y">> :> <<"p", "y", "t", "h", "o", "n">>)
    @@ (<<"p", "y", "t", "h", "o", "n">> :> <<"p", "y", "t", "h", "o", "n">>)

\* The prefixes of the regex ^(?:language|lang)[-_]([a-z0-9+#]+)$
LangPrefixes ==
    << <<"l", "a", "n", "g", "u", "a", "g", "e", "-">>,
       <<"l", "a", "n", "g", "u", "a", "g", "e", "_">>,
       <<"l", "a", "n", "g", "-">>, <<"l", "a", "n", "g", "_">> >>

\* token.strip('.#')
RECURSIVE StripDotHash(_)
StripDotHash(t) ==
    IF t # <<>> /\ Head(t) \in {".", "#"} THEN StripDotHash(Tail(t))
    ELSE IF t # <<>> /\ t[Len(t)] \in {".", "#"}
    THEN StripDotHash(SubSeq(t, 1, Len(t) - 1))
    ELSE t

\* The body of "for token in candidates": the language returned for the
\* token, or <<>> when the loop goes on to the next token.
LanguageOfToken(token) ==
    LET hits == SelectSeq(LangPrefixes, LAMBDA pre :
                    /\ StartsWith(token, pre)
                    /\ Len(token) > Len(pre)
                    /\ \A i \in (Len(pre) + 1)..Len(token) : token[i] \in LangChars)
        norm == StripDotHash(token)
    IN  IF token = <<"h", "l", "j", "s">> THEN <<>>
        ELSE IF hits # <<>>
        THEN LET key == SubSeq(token, Len(hits[1]) + 1, Len(token))
             IN  IF key \in DOMAIN AliasMap THEN AliasMap[key] ELSE key
        ELSE IF norm \in DOMAIN AliasMap THEN AliasMap[norm]
        ELSE <<>>

\* collect_from(tag): the class tokens, then the language attributes present
LanguageCandidates(tag) ==
    LET classes == ClassList(tag)
        names   == SelectSeq(<<"data-lang", "data-language", "lang", "language">>,
                             LAMBDA a : Attr(tag, a, <<>>) # <<>>)
    IN  [i \in 1..Len(classes) |-> Lower(classes[i])]
        \o [i \in 1..Len(names) |-> Lower(tag.attrs[names[i]])]

\* _detect_code_language(pre_tag, code_tag): tags is <<pre_tag>> or
\* <<pre_tag, code_tag>>; <<>> is None
DetectCodeLanguage(tags) ==
    LET candidates == ConcatAll([i \in 1..Len(tags) |-> LanguageCandidates(tags[i])])
        found      == SelectSeq(candidates, LAMBDA t : LanguageOfToken(t) # <<>>)
    IN  IF found = <<>> THEN <<>> ELSE LanguageOfToken(found[1])

\* The branch of a pre element: the lines of its fenced block.
FencePre(pre) ==
    LET codes == FindAll(pre, {"code"})
    IN  IF codes = <<>>
        THEN FenceCodeBlock(GetText(pre), DetectCodeLanguage(<<pre>>))
        ELSE LET code_tag == NodeAt(pre, codes[1])
             IN  FenceCodeBlock(GetText(code_tag), DetectCodeLanguage(<<pre, code_tag>>))

\* _collect_inline_text(node)
CollectInlineText(node) == Call(EscapeMd, Call(CollapseWs, GetTextStripped(node)))

\* What an img element adds to the text: the pages are rendered with
\* no_images set, so _handle_image returns None and nothing is added.
ImageMarkdown(img) ==
    LET r == HandleImage(img, <<>>, [q \in {} |-> 0], "ok", 0, TRUE)
    IN  IF r.md = None THEN <<>> ELSE <<r.md>>

\* _collect_children(node): a list of lines
RECURSIVE CollectChildren(_)
CollectChildren(node) ==
    ConcatAll([i \in 1..Len(node.kids) |->
        LET c == node.kids[i]
        IN  IF ~IsTag(c) THEN (IF EscapeMd(c.text) # <<>> THEN <<EscapeMd(c.text)>> ELSE <<>>)
            ELSE IF c.name = "img" THEN ImageMarkdown(c)
            ELSE IF c.name = "a" THEN <<CollectInlineText(c)>>
            ELSE IF c.name = "pre" THEN FencePre(c)
            ELSE CollectChildren(c)])

\* The parts of _collect_inline(node), before they are joined.
RECURSIVE InlineParts(_)
InlineParts(node) ==
    [i \in 1..Len(node.kids) |->
        LET c == node.kids[i]
        IN  IF ~IsTag(c) THEN EscapeMd(c.text)
            ELSE IF c.name \in {"strong", "b"}
            THEN <<"*", "*">> \o CollectInlineText(c) \o <<"*", "*">>
            ELSE IF c.name \in {"em", "i"}
            THEN <<"*">> \o CollectInlineText(c) \o <<"*">>
            ELSE IF c.name = "code" THEN InlineCodeSpan(CollectInlineText(c))
            ELSE IF c.name = "img" THEN ConcatAll(ImageMarkdown(c))
            ELSE IF c.name = "a" THEN CollectInlineText(c)
            ELSE Call(Strip, Call(CollapseWs, Call(ConcatAll, InlineParts(c))))]

\* _collect_inline(node)
CollectInline(node) == Call(Strip, Call(CollapseWs, Call(ConcatAll, InlineParts(node))))

HeadingLevel ==
    [n \in {"h1", "h2", "h3", "h4", "h5", "h6"} |->
        CHOOSE l \in 1..6 : n = <<"h1", "h2", "h3", "h4", "h5", "h6">>[l]]

\* walk(node) of _element_to_markdown: a list of lines
Walk(node) ==
    IF ~IsTag(node) THEN <<EscapeMd(node.text)>>
    ELSE IF node.name \in {"script", "style", "noscript", "iframe", "form"} THEN <<>>
    ELSE IF node.name \in DOMAIN HeadingLevel
    THEN << Repeat("#", HeadingLevel[node.name]) \o <<" ">> \o CollectInlineText(node),
            <<>> >>
    ELSE IF node.name = "p"
    THEN LET content == CollectInline(node)
         IN  IF Strip(content) # <<>> THEN <<content, <<>>>> ELSE <<>>
    ELSE IF node.name \in {"ul", "ol"}
    THEN LET lis == SelectSeq(node.kids, LAMBDA c : c.name = "li")
         IN  [i \in 1..Len(lis) |->
                (IF node.name = "ol" THEN Digits(i) \o <<".", " ">> ELSE <<"-", " ">>)
                \o CollectInline(lis[i])]
             \o << <<>> >>
    ELSE IF node.name = "pre" THEN FencePre(node)
    ELSE IF node.name = "blockquote"
    THEN LET inner == SplitNl(CollectInline(node))
         IN  [i \in 1..Len(inner) |->
                IF inner[i] # <<>> THEN <<">", " ">> \o inner[i] ELSE <<">">>]
             \o << <<>> >>
    ELSE CollectChildren(node)

\* _element_to_markdown(el, base_url, article_folder)
ElementToMarkdown(el) ==
    Call(Strip, Call(CollapseNewlines, Call(JoinNl,
        ConcatAll([i \in 1..Len(el.kids) |-> Walk(el.kids[i])]))))

Txt(chars) == TextNode(chars)
El(name, attrs, kids) == [name |-> name, attrs |-> attrs, text |-> <<>>, kids |-> kids]

\* <h1>Hi</h1>
HeadingHi == El("h1", NoAttrs, <<Txt(<<"H", "i">>)>>)

\* <p>Text <b>bold</b></p>
ParagraphBold ==
    El("p", NoAttrs, <<Txt(<<"T", "e", "x", "t", " ">>),
                       El("b", NoAttrs, <<Txt(<<"b", "o", "l", "d">>)>>)>>)

\* <pre><code class="language-python">print(1)</code></pre>
PrePython ==
    El("pre", NoAttrs,
       <<El("code",
            "class" :> (<<"l", "a", "n", "g", "u", "a", "g", "e", "-">>
                        \o <<"p", "y", "t", "h", "o", "n">>),
            <<Txt(<<"p", "r", "i", "n", "t", "(", "1", ")">>)>>)>>)

\* The blocks of the pages rendered: the three above; a paragraph whose text
\* is a backslash and an asterisk; a paragraph with an underscore and an em
\* element; an unordered and an ordered list; a blockquote with a hash sign; a
\* string with an asterisk.
Blocks ==
    { HeadingHi,
      ParagraphBold,
      PrePython,
      El("p", NoAttrs, <<Txt(<<"\\", "*">>)>>),
      El("p", NoAttrs, <<Txt(<<"a", "_">>), El("em", NoAttrs, <<Txt(<<"i">>)>>)>>),
      El("ul", NoAttrs, <<El("li", NoAttrs, <<Txt(<<"x">>)>>),
                          El("li", NoAttrs, <<Txt(<<"y">>)>>)>>),
      El("ol", NoAttrs, <<El("li", NoAttrs, <<Txt(<<"x">>)>>)>>),
      El("blockquote", NoAttrs, <<Txt(<<"q", "#">>)>>),
      Txt(<<"a", "*">>) }

\* The page of the blocks given: they are the whole document, or the content
\* of its only article, or of the only div of its body.
Page(wrapper, blocks) ==
    CASE wrapper = "none" -> Document(blocks)
      [] wrapper = "article" -> Document(<<El("article", NoAttrs, blocks)>>)
      [] wrapper = "body_div" ->
           Document(<<El("body", NoAttrs, <<El("div", NoAttrs, blocks)>>)>>)

Wrappers == {"none", "article", "body_div"}

\* <article><h1>Hi</h1><p>Text <b>bold</b></p><pre><code
\* class="language-python">print(1)</code></pre></article>
ExamplePage == Page("article", <<HeadingHi, ParagraphBold, PrePython>>)

RenderInit ==
    /\ rnd_doc \in { Page(w, bs) : w \in Wrappers, bs \in SeqsUpTo(Blocks, MaxBlocks) }
                  \cup { ExamplePage }
    /\ rnd_root = Document(<<>>)
    /\ rnd_out = <<>>
    /\ rnd_md = <<>>
    /\ rnd_pc = "parsed"

RenderOff ==
    /\ rnd_doc = Document(<<>>)
    /\ rnd_root = Document(<<>>)
    /\ rnd_out = <<>>
    /\ rnd_md = <<>>
    /\ rnd_pc = "off"

\* export_article, from "content_root = self._extract_main_content(soup)" to
\* "markdown = self._element_to_markdown(content_root, ...)": the content root
\* is located, sanitized and rendered.
RenderArticle ==
    /\ rnd_pc = "parsed"
    /\ rnd_root' =
           Call(RemoveUnwantedElements,
                Call(LAMBDA found :
                         NodeAt(rnd_doc,
                                IF found # NoElement THEN found
                                ELSE IF FindBody(rnd_doc) # NoElement THEN FindBody(rnd_doc)
                                ELSE <<>>),
                     ExtractMainContent(rnd_doc)))
    /\ rnd_out' = ElementToMarkdown(rnd_root')
    /\ rnd_pc' = "rendered"
    /\ UNCHANGED <<rnd_doc, rnd_md>>

\* content.splitlines(): the lines of content, no empty last line after a
\* final newline
SplitLines(content) ==
    IF content = <<>> THEN <<>>
    ELSE LET parts == SplitNl(content)
         IN  IF parts[Len(parts)] = <<>> THEN SubSeq(parts, 1, Len(parts) - 1)
             ELSE parts

\* re.fullmatch(r"\s*[\[\]]+\s*", ln)
BracketOnly(ln) ==
    LET t == Strip(ln)
    IN  t # <<>> /\ \A i \in 1..Len(t) : t[i] \in {"[", "]"}

\* _cleanup_markdown(content)
CleanupMarkdown(content) ==
    LET cleaned == SelectSeq(SplitLines(content), LAMBDA ln : ~BracketOnly(ln))
    IN  Call(Strip, Call(CollapseNewlines, Call(JoinNl, cleaned)))

\* The article exported: its title and its URL; it has no author and no date.
ArticleTitle == <<"T">>
FetchUrl == <<"h", "t", "t", "p", "s", ":", "/", "/", "u">>

\* md_lines of export_article before the Markdown of the content
HeaderLines ==
    << <<"#", " ">> \o Strip(ArticleTitle),
       <<>>,
       <<"-", " ", "O", "r", "i", "g", "i", "n", "a", "l", " ", "U", "R", "L", ":", " ", "[">>
           \o FetchUrl \o <<"]", "(">> \o FetchUrl \o <<")">>,
       <<>>,
       <<"-", "-", "-">>,
       <<>> >>

\* md_content of export_article, as written to article.md
ComposeMarkdown(markdown) ==
    LET md_content ==
            Call(Strip, Call(JoinNl, HeaderLines \o <<Strip(markdown)>>)) \o <<"\n">>
    IN  Call(CleanupMarkdown, md_content) \o <<"\n">>

\* export_article from "md_lines = []" to the write of article.md
ComposeArticle ==
    /\ rnd_pc = "rendered"
    /\ rnd_md' = ComposeMarkdown(rnd_out)
    /\ rnd_pc' = "composed"
    /\ UNCHANGED <<rnd_doc, rnd_root, rnd_out>>

\* The characters of the code of the pre elements rendered.
PreChars == {"a", "[", "\n", " ", "*"}

\* <pre><code class="language-py">text</code></pre>, or <pre>text</pre>
PreOf(text, lang) ==
    IF lang = <<>> THEN El("pre", NoAttrs, <<Txt(text)>>)
    ELSE El("pre", NoAttrs,
            <<El("code", "class" :> (<<"l", "a", "n", "g", "u", "a", "g", "e", "-">> \o lang),
                 <<Txt(text)>>)>>)

\* Pages whose content is one pre element, the whole document or nested.
VerbatimInit ==
    /\ rnd_doc \in { Page(w, <<PreOf(t, l)>>) :
                        w \in Wrappers, t \in SeqsUpTo(PreChars, MaxCodeLen) \ {<<>>},
                        l \in Languages }
    /\ rnd_root = Document(<<>>)
    /\ rnd_out = <<>>
    /\ rnd_md = <<>>
    /\ rnd_pc = "parsed"

(***************************************************************************)
(* Two export_article calls at once on one output_root.  Each call to the  *)
(* filesystem (os.path.exists, os.makedirs, open) is one step; between two *)
(* of them the other export may take steps.                                *)
(***************************************************************************)
Procs == {1, 2}

\* The path of the only img of the pages exported at once.
RacePhoto == <<"/", "a", "/", "p", "h", "o", "t", "o", ".", "j", "p", "g">>

ConcurrentInit ==
    /\ con_fs \in { NoAttrs, OldFolder(<<"X">>) }
    /\ con_pc = [p \in Procs |-> "start"]
    /\ con_base = [p \in Procs |-> <<>>]
    /\ con_folder = [p \in Procs |-> <<>>]
    /\ con_suffix = [p \in Procs |-> 1]
    /\ con_idx = [p \in Procs |-> 1]
    /\ con_imgs = [p \in Procs |-> 0]

ConcurrentOff ==
    /\ con_fs = NoAttrs
    /\ con_pc = [p \in Procs |-> "off"]
    /\ con_base = [p \in Procs |-> <<>>]
    /\ con_folder = [p \in Procs |-> <<>>]
    /\ con_suffix = [p \in Procs |-> 1]
    /\ con_idx = [p \in Procs |-> 1]
    /\ con_imgs = [p \in Procs |-> 0]

\* _create_unique_article_folder: "folder = os.path.join(self.output_root, base)"
\* and "suffix = 1"
StartExport(p) ==
    /\ con_pc[p] = "start"
    /\ \E b \in Bases :
         /\ con_base' = [con_base EXCEPT ![p] = b]
         /\ con_folder' = [con_folder EXCEPT ![p] = b]
    /\ con_suffix' = [con_suffix EXCEPT ![p] = 1]
    /\ con_pc' = [con_pc EXCEPT ![p] = "check"]
    /\ UNCHANGED <<con_fs, con_idx, con_imgs>>

\* "while os.path.exists(folder):"
CheckFolder(p) ==
    /\ con_pc[p] = "check"
    /\ con_pc' = [con_pc EXCEPT ![p] =
                    IF Exists(con_fs, con_folder[p]) THEN "try" ELSE "mkdir"]
    /\ UNCHANGED <<con_fs, con_base, con_folder, con_suffix, con_idx, con_imgs>>

\* "folder_try = f'{folder}-{suffix}'; if not os.path.exists(folder_try):
\* folder = folder_try; break" and else "suffix += 1"
TryFolder(p) ==
    /\ con_pc[p] = "try"
    /\ LET folder_try == con_folder[p] \o <<"-">> \o Digits(con_suffix[p])
       IN  IF ~Exists(con_fs, folder_try)
           THEN /\ con_folder' = [con_folder EXCEPT ![p] = folder_try]
                /\ con_pc' = [con_pc EXCEPT ![p] = "mkdir"]
                /\ UNCHANGED con_suffix
           ELSE /\ con_suffix' = [con_suffix EXCEPT ![p] = con_suffix[p] + 1]
                /\ con_pc' = [con_pc EXCEPT ![p] = "check"]
                /\ UNCHANGED con_folder
    /\ UNCHANGED <<con_fs, con_base, con_idx, con_imgs>>

\* "os.makedirs(folder, exist_ok=True); return folder"
MakeFolder(p) ==
    /\ con_pc[p] = "mkdir"
    /\ con_fs' = MakeDirs(con_fs, con_folder[p], p)
    /\ con_pc' = [con_pc EXCEPT ![p] = "walk"]
    /\ UNCHANGED <<con_base, con_folder, con_suffix, con_idx, con_imgs>>

\* The render walk meets an img: _handle_image up to "idx = 1" of
\* _unique_image_filename
MeetImage(p) ==
    /\ con_pc[p] = "walk"
    /\ con_imgs[p] < MaxRaceImages
    /\ con_idx' = [con_idx EXCEPT ![p] = 1]
    /\ con_imgs' = [con_imgs EXCEPT ![p] = con_imgs[p] + 1]
    /\ con_pc' = [con_pc EXCEPT ![p] = "name"]
    /\ UNCHANGED <<con_fs, con_base, con_folder, con_suffix>>

\* "while os.path.exists(os.path.join(folder, candidate)): idx += 1"
CheckImageName(p) ==
    /\ con_pc[p] = "name"
    /\ LET candidate == ImageCandidate(con_idx[p], SplitExt(Basename(RacePhoto)))
       IN  IF Exists(con_fs, PathJoin(con_folder[p], candidate))
           THEN /\ con_idx' = [con_idx EXCEPT ![p] = con_idx[p] + 1]
                /\ UNCHANGED con_pc
           ELSE /\ con_pc' = [con_pc EXCEPT ![p] = "download"]
                /\ UNCHANGED con_idx
    /\ UNCHANGED <<con_fs, con_base, con_folder, con_suffix, con_imgs>>

\* "self._download_binary(src, local_path)" inside its try/except
DownloadImage(p) ==
    /\ con_pc[p] = "download"
    /\ \E outcome \in Outcomes :
         LET candidate == ImageCandidate(con_idx[p], SplitExt(Basename(RacePhoto)))
         IN  con_fs' = DownloadBinary(con_fs, PathJoin(con_folder[p], candidate),
                                      outcome, <<p, con_imgs[p]>>).files
    /\ con_pc' = [con_pc EXCEPT ![p] = "walk"]
    /\ UNCHANGED <<con_base, con_folder, con_suffix, con_idx, con_imgs>>

\* export_article from the end of the walk: "with open(markdown_path, 'w')"
WriteMarkdownFile(p) ==
    /\ con_pc[p] = "walk"
    /\ con_fs' = WriteFile(con_fs, PathJoin(con_folder[p], ArticleMd), <<"article", p>>)
    /\ con_pc' = [con_pc EXCEPT ![p] = "done"]
    /\ UNCHANGED <<con_base, con_folder, con_suffix, con_idx, con_imgs>>

(***************************************************************************)
(* Specifications.                                                         *)
(***************************************************************************)
InitCode ==
    /\ CodeInit /\ ExportOff /\ ImageOff /\ LocateOff /\ SanitizeOff /\ RenderOff
    /\ ConcurrentOff
NextCode ==
    \/ FenceCode /\ UNCHANGED <<exp_vars, img_vars, loc_vars, san_vars, rnd_vars, con_vars>>
    \/ InlineCode /\ UNCHANGED <<exp_vars, img_vars, loc_vars, san_vars, rnd_vars, con_vars>>
SpecCode == InitCode /\ [][NextCode]_vars

\* One export_article call, into an output_root earlier runs have filled.
InitExport ==
    /\ ExportInit /\ no_images \in BOOLEAN
    /\ CodeOff /\ ImageOff /\ LocateOff /\ SanitizeOff /\ RenderOff /\ ConcurrentOff
NextExport ==
    \/ CreateFolder(1) /\ UNCHANGED <<code_vars, img_vars, loc_vars, san_vars, rnd_vars, con_vars>>
    \/ RenderImage /\ UNCHANGED <<code_vars, img_vars, loc_vars, san_vars, rnd_vars, con_vars>>
    \/ WriteArticle /\ UNCHANGED <<code_vars, img_vars, loc_vars, san_vars, rnd_vars, con_vars>>
SpecExport == InitExport /\ [][NextExport]_vars

\* A sequence of export_article calls of an exporter built with no_images=True.
InitFolders ==
    /\ ExportInit /\ no_images = TRUE
    /\ CodeOff /\ ImageOff /\ LocateOff /\ SanitizeOff /\ RenderOff /\ ConcurrentOff
NextFolders ==
    \/ CreateFolder(MaxExports)
         /\ UNCHANGED <<code_vars, img_vars, loc_vars, san_vars, rnd_vars, con_vars>>
    \/ RenderImage /\ UNCHANGED <<code_vars, img_vars, loc_vars, san_vars, rnd_vars, con_vars>>
    \/ WriteArticle /\ UNCHANGED <<code_vars, img_vars, loc_vars, san_vars, rnd_vars, con_vars>>
SpecFolders == InitFolders /\ [][NextFolders]_vars

InitImage ==
    /\ ImageInit /\ CodeOff /\ ExportOff /\ LocateOff /\ SanitizeOff /\ RenderOff
    /\ ConcurrentOff
NextImage ==
    HandleOneImage /\ UNCHANGED <<code_vars, exp_vars, loc_vars, san_vars, rnd_vars, con_vars>>
SpecImage == InitImage /\ [][NextImage]_vars

InitLocate ==
    /\ LocateInit /\ CodeOff /\ ExportOff /\ ImageOff /\ SanitizeOff /\ RenderOff
    /\ ConcurrentOff
NextLocate ==
    \/ LocateContent /\ UNCHANGED <<code_vars, exp_vars, img_vars, san_vars, rnd_vars, con_vars>>
    \/ FallBackToBody /\ UNCHANGED <<code_vars, exp_vars, img_vars, san_vars, rnd_vars, con_vars>>
SpecLocate == InitLocate /\ [][NextLocate]_vars

InitSanitize ==
    /\ SanitizeInit /\ CodeOff /\ ExportOff /\ ImageOff /\ LocateOff /\ RenderOff
    /\ ConcurrentOff
NextSanitize ==
    \/ Sanitize /\ UNCHANGED <<code_vars, exp_vars, img_vars, loc_vars, rnd_vars, con_vars>>
    \/ SanitizeAgain /\ UNCHANGED <<code_vars, exp_vars, img_vars, loc_vars, rnd_vars, con_vars>>
SpecSanitize == InitSanitize /\ [][NextSanitize]_vars

InitRender ==
    /\ RenderInit /\ CodeOff /\ ExportOff /\ ImageOff /\ LocateOff /\ SanitizeOff
    /\ ConcurrentOff
NextRender ==
    \/ RenderArticle /\ UNCHANGED <<code_vars, exp_vars, img_vars, loc_vars, san_vars, con_vars>>
    \/ ComposeArticle /\ UNCHANGED <<code_vars, exp_vars, img_vars, loc_vars, san_vars, con_vars>>
SpecRender == InitRender /\ [][NextRender]_vars

\* The same steps on pages of one code block.
InitVerbatim ==
    /\ VerbatimInit /\ CodeOff /\ ExportOff /\ ImageOff /\ LocateOff /\ SanitizeOff
    /\ ConcurrentOff
SpecVerbatim == InitVerbatim /\ [][NextRender]_vars

InitConcurrent ==
    /\ ConcurrentInit
    /\ CodeOff /\ ExportOff /\ ImageOff /\ LocateOff /\ SanitizeOff /\ RenderOff
OthersUnchanged == UNCHANGED <<code_vars, exp_vars, img_vars, loc_vars, san_vars, rnd_vars>>
NextConcurrent ==
    \/ \E p \in Procs : StartExport(p) /\ OthersUnchanged
    \/ \E p \in Procs : CheckFolder(p) /\ OthersUnchanged
    \/ \E p \in Procs : TryFolder(p) /\ OthersUnchanged
    \/ \E p \in Procs : MakeFolder(p) /\ OthersUnchanged
    \/ \E p \in Procs : MeetImage(p) /\ OthersUnchanged
    \/ \E p \in Procs : CheckImageName(p) /\ OthersUnchanged
    \/ \E p \in Procs : DownloadImage(p) /\ OthersUnchanged
    \/ \E p \in Procs : WriteMarkdownFile(p) /\ OthersUnchanged
SpecConcurrent == InitConcurrent /\ [][NextConcurrent]_vars

(***************************************************************************)
(* The properties checked.                                                 *)
(***************************************************************************)
\* s holds a run of n backticks or more.
HasBacktickRun(s, n) ==
    \E i \in 1..(Len(s) - n + 1) : \A j \in i..(i + n - 1) : s[j] = Backtick

AllBackticks(s) == \A i \in 1..Len(s) : s[i] = Backtick

\* C5: the delimiter chosen for a text is strictly longer than every run of
\* backticks inside the delimited text: the fence of _fence_code_block is
\* max(3, longest run + 1) backticks, the delimiter of _inline_code_span
\* max(1, longest run + 1), so neither occurs as a run inside its content.
C5_DelimiterLongerThanRuns ==
    /\ code_pc = "fenced" =>
         LET opening == code_out[1]
             content == code_out[2]
             fence   == code_out[3]
         IN  /\ AllBackticks(fence)
             /\ Len(fence) >= MinFence
             /\ ~HasBacktickRun(content, Len(fence))
             /\ Len(fence) > MinFence => HasBacktickRun(content, Len(fence) - 1)
             /\ opening = fence \o language
    /\ code_pc = "span" =>
         LET n     == (Len(code_out) - Len(code_text)) \div 2
             fence == Repeat(Backtick, n)
         IN  /\ code_out = fence \o code_text \o fence
             /\ n >= MinSpan
             /\ ~HasBacktickRun(code_text, n)
             /\ n > MinSpan => HasBacktickRun(code_text, n - 1)

\* A code block whose text holds a run of three backticks is fenced with four.
C5_Witness ==
    /\ code_pc = "fenced"
    /\ HasBacktickRun(code_out[2], 3)
    /\ Len(code_out[3]) = 4

\* The folder of a path folder/name.
FolderOf(path) == SubSeq(path, 1, LastIndexOf(path, "/") - 1)

\* No path that exists changes what it holds, or disappears.
NothingOverwritten ==
    \A q \in DOMAIN fs : q \in DOMAIN fs' /\ fs'[q] = fs[q]

\* Image k of the .jpg images: img_00k.jpg
Jpg(k) == ImageCandidate(k, <<".", "j", "p", "g">>)

\* C2: within one export every name _unique_image_filename returns names a file
\* that did not exist in the destination folder at that moment, the names
\* referenced in the output are pairwise distinct, no existing file is
\* overwritten, and the first two .jpg images of a fresh folder, both saved, are
\* img_001.jpg and img_002.jpg.
C2_ImageNamesUnique ==
    /\ [][/\ (img_idx' # img_idx /\ last_img'.requested) =>
                ~Exists(fs, PathJoin(folder_path, last_img'.local_name))
          /\ NothingOverwritten]_vars
    /\ [](/\ \A i, j \in 1..Len(md_refs) : i # j => md_refs[i] # md_refs[j]
          /\ \A i \in 1..Len(md_refs) :
               Exists(fs, PathJoin(folder_path, md_refs[i]))
          /\ (/\ img_idx = 2
              /\ Len(md_refs) = 2
              /\ \A i \in 1..2 : EndsWith(md_refs[i], <<".", "j", "p", "g">>))
             => md_refs = <<Jpg(1), Jpg(2)>>)

\* Three .jpg images: the first saved, the download of the second broken off
\* with its file left behind, the third saved under the next free number.
C2_Witness ==
    /\ img_idx = 3
    /\ md_refs = <<Jpg(1), Jpg(3)>>
    /\ fs[PathJoin(folder_path, Jpg(2))][1] = "partial"

Failed(i) == i.outcome \in {"http_error", "write_error"}

\* C3: an image whose download or file write fails makes _handle_image return
\* nothing: no reference is inserted, no exception leaves the render walk, the
\* walk goes on with the images that remain, and export_article still writes
\* article.md and returns the folder.
C3_ImageFailureNeverAborts ==
    /\ [](/\ exp_pc # "aborted"
          /\ Failed(last_img) =>
               /\ last_img.md = None
               /\ \A i \in 1..Len(md_refs) : md_refs[i] # last_img.local_name
          /\ (exp_pc = "idle" /\ exp_no > 0) => returned = <<folder_path>>
          /\ \A i \in 1..Len(returned) :
               Exists(fs, PathJoin(returned[i], ArticleMd)))
    /\ [][(img_idx' # img_idx /\ Failed(last_img')) =>
             (md_refs' = md_refs /\ exp_pc' = "render")]_vars

\* An export whose first .jpg download broke off and whose second image was
\* saved; it has written article.md and returned its folder.
C3_Witness ==
    /\ exp_pc = "idle"
    /\ returned = <<folder_path>>
    /\ img_idx = 2
    /\ md_refs = <<Jpg(2)>>
    /\ fs[PathJoin(folder_path, Jpg(1))][1] = "partial"
    /\ Exists(fs, PathJoin(folder_path, ArticleMd))

\* C7: every call of _create_unique_article_folder returns a folder that did
\* not exist before the call: the name itself when it is free, else name-k for
\* the smallest k >= 1 such that name-k does not exist; so the folders returned
\* are pairwise distinct and every file an export writes lies in the folder
\* that export created.
C7_FolderUnique ==
    /\ [][exp_no' # exp_no =>
            /\ ~Exists(fs, folder_path')
            /\ fs'[folder_path'] = <<"dir", exp_no'>>
            /\ IF ~Exists(fs, base') THEN folder_path' = base'
               ELSE \E k \in 1..(Cardinality(DOMAIN fs) + 1) :
                      /\ folder_path' = base' \o <<"-">> \o Digits(k)
                      /\ \A j \in 1..(k - 1) :
                           Exists(fs, base' \o <<"-">> \o Digits(j))]_vars
    /\ [][NothingOverwritten]_vars
    /\ [](/\ \A i, j \in 1..Len(returned) : i # j => returned[i] # returned[j]
          /\ \A q \in DOMAIN fs :
               (fs[q][1] # "dir" /\ fs[q][2] > 0) =>
                  /\ fs[FolderOf(q)] = <<"dir", fs[q][2]>>
                  /\ fs[q][2] <= Len(returned) => FolderOf(q) = returned[fs[q][2]])

\* Three exports of the same article into an empty output_root: X, X-1, X-2.
C7_Witness ==
    /\ returned = << <<"X">>, <<"X", "-", "1">>, <<"X", "-", "2">> >>
    /\ \A i \in 1..3 : fs[returned[i]] = <<"dir", i>>

\* An img is too small when a width or a height attribute is present, parses
\* as a number and is below 32.
SmallAttr(tag, name) ==
    /\ name \in DOMAIN tag.attrs
    /\ IntParse(tag.attrs[name]).ok
    /\ IntParse(tag.attrs[name]).val < MinImageSize

\* C8: an image that passes the earlier filters is rejected, without a
\* download, if and only if a width or a height attribute is present, parses as
\* a number and is below 32, each attribute judged on its own.
C8_MinimumSizeFilter ==
    (img_out.outcome # "none" /\ ~FilteredEarly(img_tag, img_out.no_images)) =>
        (~img_out.requested <=> (SmallAttr(img_tag, "width") \/ SmallAttr(img_tag, "height")))

\* p comes before q in document order (an ancestor before its descendants).
PathBefore(p, q) ==
    \E k \in 1..Len(q) :
        /\ \A i \in 1..(k - 1) : i <= Len(p) /\ p[i] = q[i]
        /\ k > Len(p) \/ (k <= Len(p) /\ p[k] < q[k])
        /\ Len(p) >= k - 1

ElementPathsOf(root) ==
    LET d == DescendantPaths(root)
    IN  { d[i] : i \in { j \in 1..Len(d) : IsTag(NodeAt(root, d[j])) } }

ElementPaths(root) ==
    LET d == DescendantPaths(root) IN { d[i] : i \in 1..Len(d) }

\* The div and section elements among the paths els of the document.
DivPaths(els) == { q \in els : NodeAt(soup, q).name \in {"div", "section"} }

\* The elements among els that match selector number k of the locator's list.
MatchesOf(els, k) == { q \in els : Matches(NodeAt(soup, q), ContentSelectors[k]) }

\* The first element of the non-empty set S in document order.
FirstOf(S) == CHOOSE q \in S : \A o \in S : ~PathBefore(o, q)

LongText(q) == TextLength(NodeAt(soup, q)) > MinContentLen

\* The selectors whose first match has more than 200 characters of text.
QualifyingByFirstMatch(els) ==
    { k \in 1..Len(ContentSelectors) :
        LET m == MatchesOf(els, k) IN m # {} /\ LongText(FirstOf(m)) }

\* The selectors of which some match has more than 200 characters of text.
QualifyingByAnyMatch(els) ==
    { k \in 1..Len(ContentSelectors) : \E q \in MatchesOf(els, k) : LongText(q) }

\* No selector qualifies: the selector loop of _extract_main_content returns
\* nothing, no selector's first match having more than 200 characters of text.
NoSelectorQualifies == QualifyingByFirstMatch(ElementPaths(soup)) = {}

\* q is a div or section with the most text among divs, the first such in
\* document order.
MostTextFirst(divs, q) ==
    /\ q \in divs
    /\ LET len == [d \in divs |-> TextLength(NodeAt(soup, d))]
       IN  \A d \in divs :
             /\ len[d] <= len[q]
             /\ len[d] = len[q] => ~PathBefore(d, q)

\* export_article goes on with the element located or, when there is none, with
\* the body element, or the whole document if there is no body.
FallBackStep ==
    loc_pc = "located" =>
        LET bodies == { q \in ElementPaths(soup) : NodeAt(soup, q).name = "body" }
        IN  content_root' =
                IF content_root # NoElement THEN content_root
                ELSE IF bodies # {} THEN FirstOf(bodies)
                ELSE <<>>

\* C9 as claimed: when no selector qualifies, _extract_main_content returns the
\* div/section with the greatest normalized text length, the first on a tie, and
\* nothing if and only if the document has no div/section at all; export_article
\* then uses body, or the whole document.
C9_AsClaimed ==
    /\ []((loc_pc = "located" /\ NoSelectorQualifies) =>
             LET divs == DivPaths(ElementPaths(soup))
             IN  /\ content_root = NoElement <=> divs = {}
                 /\ content_root # NoElement => MostTextFirst(divs, content_root))
    /\ [][FallBackStep]_vars

\* C9, amended: nothing is returned if and only if no div/section has any text
\* (normalized text length 0 for all of them, or none in the document).
C9_FallbackMostText ==
    /\ []((loc_pc = "located" /\ NoSelectorQualifies) =>
             LET divs == DivPaths(ElementPaths(soup))
             IN  /\ content_root = NoElement <=>
                      \A d \in divs : TextLength(NodeAt(soup, d)) = 0
                 /\ content_root # NoElement => MostTextFirst(divs, content_root))
    /\ [][FallBackStep]_vars

\* Two div elements with the same, greatest, text length: the first is returned.
C9_Witness ==
    /\ loc_pc = "rooted"
    /\ NoSelectorQualifies
    /\ content_root = <<1>>
    /\ <<2>> \in DivPaths(ElementPaths(soup))
    /\ TextLength(NodeAt(soup, <<2>>)) = TextLength(NodeAt(soup, <<1>>))
    /\ TextLength(NodeAt(soup, <<1>>)) > 0

Least(S) == CHOOSE k \in S : \A j \in S : k <= j

\* C10 as claimed: the selectors are examined in order and, for each, its
\* matches; the first match with more than 200 characters of text is returned,
\* so whenever some match of a selector has that much text the result is such
\* an element, of the earliest selector that has one.
C10_AsClaimed ==
    loc_pc = "located" =>
        LET els == ElementPaths(soup)
            any == QualifyingByAnyMatch(els)
            m   == MatchesOf(els, Least(any))
        IN  any # {} =>
              /\ content_root \in m
              /\ LongText(content_root)
              /\ \A o \in m : LongText(o) => ~PathBefore(o, content_root)

\* C10, amended: of each selector only the first match in document order is
\* examined; the result is the first match of the earliest selector whose first
\* match has more than 200 characters of text, whatever the text of the other
\* matches and of the later selectors, and it is the div/section fallback only
\* when there is no such selector.
C10_FirstMatchPriority ==
    loc_pc = "located" =>
        LET els   == ElementPaths(soup)
            first == QualifyingByFirstMatch(els)
        IN  IF first # {}
            THEN content_root = FirstOf(MatchesOf(els, Least(first)))
            ELSE content_root = NoElement \/ content_root \in DivPaths(els)

\* An article of 201 characters inside a div of class content that holds 402:
\* the article is returned, its selector coming first.
C10_Witness ==
    /\ loc_pc = "located"
    /\ content_root = <<1, 2>>
    /\ NodeAt(soup, <<1, 2>>).name = "article"
    /\ <<1>> \in MatchesOf(ElementPaths(soup), 5)
    /\ TextLength(NodeAt(soup, <<1>>)) > TextLength(NodeAt(soup, <<1, 2>>))

(***************************************************************************)
(* The sanitizer.                                                          *)
(***************************************************************************)
\* C1: _remove_unwanted_elements is idempotent: run on a subtree it has
\* sanitized, it removes no element and leaves exactly the same tree; and the
\* sanitized subtree holds no element that a run would remove.
C1_SanitizerIdempotent ==
    /\ [][san_pc = "once" => san_root' = san_root]_vars
    /\ [](san_pc \in {"once", "twice"} =>
            \A k \in 1..Len(UnwantedSelectors) :
                Select(san_root, UnwantedSelectors[k]) = <<>>)

\* Two runs on a subtree of which the first run removed an element that
\* matches a selector together with a child that matches one too, and kept
\* another element.
C1_Witness ==
    /\ san_pc = "twice"
    /\ san_root # san_input
    /\ DescendantPaths(san_root) # <<>>
    /\ \E q \in ElementPathsOf(san_input) :
         /\ Len(q) >= 2
         /\ \E k \in 1..Len(UnwantedSelectors) :
              Matches(NodeAt(san_input, q), UnwantedSelectors[k])
         /\ \E k \in 1..Len(UnwantedSelectors) :
              Matches(NodeAt(san_input, SubSeq(q, 1, Len(q) - 1)), UnwantedSelectors[k])

(***************************************************************************)
(* The renderer.                                                           *)
(***************************************************************************)
Specials == {"*", "_", "#"}

\* The number of backslashes in a row that end just before position i of s.
RECURSIVE BackslashesBefore(_, _)
BackslashesBefore(s, i) ==
    IF i > 1 /\ s[i - 1] = "\\" THEN 1 + BackslashesBefore(s, i - 1) ELSE 0

\* No element below node whose rendering adds an asterisk, a hash sign or a
\* code block: the special characters of the Markdown all come from the text.
LiteralOnly(node) ==
    \A q \in ElementPathsOf(node) :
        NodeAt(node, q).name \notin
            {"b", "strong", "em", "i", "code", "pre", "h1", "h2", "h3", "h4", "h5", "h6"}

\* C4: the Markdown rendered holds no unescaped asterisk, underscore or hash
\* sign that comes from the text of the page outside code blocks: each is
\* preceded by a backslash that escapes it, that is by an odd number of
\* backslashes, also when the text has a backslash just before the character.
C4_SpecialsEscaped ==
    (rnd_pc = "rendered" /\ LiteralOnly(rnd_root)) =>
        \A i \in 1..Len(rnd_out) :
            rnd_out[i] \in Specials => BackslashesBefore(rnd_out, i) % 2 = 1

\* node with every article, div or section child replaced by its children, at
\* every depth: the blocks of node as direct children of node.
RECURSIVE Flattened(_)
Flattened(node) ==
    [node EXCEPT !.kids =
        ConcatAll([i \in 1..Len(node.kids) |->
            IF node.kids[i].name \in {"article", "div", "section"}
            THEN Flattened(node.kids[i]).kids
            ELSE <<node.kids[i]>>])]

ExampleMarkdown ==
    <<"#", " ", "H", "i", "\n", "\n">>
    \o <<"T", "e", "x", "t", " ", "*", "*", "b", "o", "l", "d", "*", "*", "\n", "\n">>
    \o <<Backtick, Backtick, Backtick, "p", "y", "t", "h", "o", "n", "\n">>
    \o <<"p", "r", "i", "n", "t", "(", "1", ")", "\n">>
    \o <<Backtick, Backtick, Backtick>>

\* C6: the block rules apply at every depth: the blocks inside container
\* elements are rendered as they are when they are direct children of the
\* subtree rendered, and the example page renders to "# Hi", a blank line,
\* "Text **bold**", a blank line and the python fenced block of print(1).
C6_BlockRulesAtEveryDepth ==
    rnd_pc = "rendered" =>
        /\ rnd_out = ElementToMarkdown(Flattened(rnd_root))
        /\ rnd_doc = ExamplePage => rnd_out = ExampleMarkdown

(***************************************************************************)
(* The postcondition of the sanitizer.                                     *)
(***************************************************************************)
\* The tokens of the class patterns and the element names of the deny-list.
DenyTokens ==
    { <<"a", "d">>,
      <<"s", "o", "c", "i", "a", "l">>,
      <<"s", "h", "a", "r", "e">>,
      <<"c", "o", "m", "m", "e", "n", "t">>,
      <<"n", "a", "v">>,
      <<"m", "e", "n", "u">>,
      <<"s", "i", "d", "e", "b", "a", "r">>,
      <<"r", "e", "l", "a", "t", "e", "d">>,
      <<"r", "e", "c", "o", "m", "m", "e", "n", "d", "e", "d">> }

DenyTags ==
    {"nav", "header", "footer", "aside", "script", "style", "noscript", "iframe", "form"}

\* C11: after _remove_unwanted_elements(root) no descendant of root has a
\* class attribute that contains a denylisted token as a substring (navbar and
\* main-menu included), and no descendant is a nav, header, footer, aside,
\* script, style, noscript, iframe or form element.
C11_SanitizerPostcondition ==
    san_pc \in {"once", "twice"} =>
        \A q \in ElementPathsOf(san_root) :
            LET node == NodeAt(san_root, q)
            IN  /\ node.name \notin DenyTags
                /\ \A t \in DenyTokens : ~Contains(JoinSp(ClassList(node)), t)

(***************************************************************************)
(* Code blocks end to end.                                                 *)
(***************************************************************************)
\* The text of the only pre element of the page.
PreText == GetText(NodeAt(rnd_doc, FindAll(rnd_doc, {"pre"})[1]))

\* The lines of md between the first line that is opening and the last line
\* that is fence, joined; None if md has no such two lines.
BetweenFences(md, opening, fence) ==
    LET ls     == SplitNl(md)
        opens  == { i \in 1..Len(ls) : ls[i] = opening }
        closes == { j \in 1..Len(ls) : ls[j] = fence }
    IN  IF opens = {} \/ closes = {} THEN None
        ELSE LET i == CHOOSE x \in opens : \A y \in opens : x <= y
                 j == CHOOSE x \in closes : \A y \in closes : x >= y
             IN  IF j <= i THEN None ELSE JoinNl(SubSeq(ls, i + 1, j - 1))

\* C12: the lines between the opening and the closing fence in article.md are
\* exactly the raw text of the pre element, up to trailing newlines, wherever
\* the element is nested: no line dropped, no blank lines collapsed, no
\* whitespace collapsed, no character escaped.
C12_CodeVerbatim ==
    rnd_pc = "composed" =>
        LET block == FenceCodeBlock(PreText, <<>>)
        IN  \E l \in {<<>>, <<"p", "y", "t", "h", "o", "n">>} :
                BetweenFences(rnd_md, block[3] \o l, block[3]) = RStripNewlines(PreText)

(***************************************************************************)
(* The numbering of the images of one export.                              *)
(***************************************************************************)
\* No download broke off and left its file behind.
NoPartialFile == \A q \in DOMAIN fs : fs[q][1] # "partial"

\* C13: in an export into a fresh folder the images referenced in the output
\* are numbered by one counter in document order whatever their extensions:
\* the k-th image saved is img_00k.<ext> (a.png then b.jpg give img_001.png
\* then img_002.jpg).
C13_SequentialNumbering ==
    NoPartialFile =>
        \A k \in 1..Len(md_refs) :
            SubSeq(md_refs[k], 1, 7) = <<"i", "m", "g", "_">> \o Pad3(k)

(***************************************************************************)
(* Exports at once.                                                        *)
(***************************************************************************)
\* Call p has its destination folder: _create_unique_article_folder returned.
HasFolder(p) == con_pc[p] \in {"walk", "name", "download", "done"}

\* The call that wrote the file or made the folder at path q (0: an earlier run).
WriterOf(q) ==
    LET who == con_fs[q][2]
    IN  IF con_fs[q][1] \in {"image", "partial"} THEN who[1] ELSE who

\* C14: two export_article calls at once on one output root, whatever the
\* interleaving of their filesystem steps and even with the same date, id and
\* title, are never given the same destination folder, and neither writes an
\* image or article.md into the folder of the other.
C14_ExportsDoNotInterfere ==
    \A p, o \in Procs :
        (p # o /\ HasFolder(p) /\ HasFolder(o)) =>
            /\ con_folder[p] # con_folder[o]
            /\ \A q \in DOMAIN con_fs :
                 (WriterOf(q) = p /\ q # con_folder[p]) => FolderOf(q) # con_folder[o]

====
